---- MODULE Spec2Model ----
(***************************************************************************)
(* A state-machine model of rl_utils.py: the ReplayBuffer class, the pure  *)
(* helpers moving_average and compute_advantage, and the two training      *)
(* drivers train_on_policy_agent and train_off_policy_agent.               *)
(***************************************************************************)
EXTENDS Integers, Sequences, FiniteSets, TLC

VARIABLES
    pc,              \* position of the caller / of the driver
    maxlen,          \* ReplayBuffer.buffer.maxlen (the capacity given to __init__)
    buffer,          \* ReplayBuffer.buffer, oldest transition first
    added,           \* every transition a caller handed to add, in call order
    picked,          \* the slots random.sample drew in the last sample call
    call,            \* the last call made: [op, k], k its integer argument
    ret,             \* outcome of the last call: [exc, value]
    args,            \* arguments of the function or driver under test
    i,               \* driver: index of the reporting chunk
    i_episode,       \* driver: index of the next episode of the chunk
    episode_return,  \* driver: rewards summed over the current episode
    return_list,     \* driver: the returns of the finished episodes
    transition_dict, \* on-policy driver: the batch being collected
    state,           \* driver: the current observation
    done,            \* driver: the environment's last terminal flag
    env_t,           \* environment: observations handed out so far
    env_left,        \* environment: non-terminal steps it may still report
    episode_log,     \* transitions the environment produced this episode
    log,             \* calls made in the current step (off-policy) or
                     \* episode (on-policy)
    update_arg       \* the batch last handed to agent.update

bufVars == <<maxlen, buffer, added, picked, call>>
loopVars == <<i, i_episode, episode_return, return_list, transition_dict,
              state, done>>
envVars == <<env_t, env_left, episode_log>>
drvVars == <<loopVars, envVars, log, update_arg>>
vars == <<pc, bufVars, ret, args, drvVars>>

----------------------------------------------------------------------------
(* Bounds of the model. *)

MaxCap == 3          \* capacities tried: -1 .. MaxCap (0 .. in the driver)
MaxAdds == 4         \* add calls per run of the buffer harness
MaxBatch == 4        \* batch sizes tried: 0 .. MaxBatch (1 .. in the driver)
MaxDeltas == 3       \* longest td_delta given to compute_advantage
MaxValues == 6       \* longest list given to moving_average
MaxWindow == 6       \* window sizes tried: 1 .. MaxWindow
MaxContinues == 1    \* non-terminal steps the environment reports per run
MaxMinimal == 2      \* minimal_size tried: 0 .. MaxMinimal

(* Values a caller stores; the buffer never interprets them.  A transition *)
(* is the tuple (state, action, reward, next_state, done).                 *)
Transitions ==
    { <<0, 10, 2, 1, FALSE>>, <<1, 11, 1, 2, TRUE>>, <<2, 10, 2, 3, FALSE>> }

EmptyDict ==
    [states |-> <<>>, actions |-> <<>>, next_states |-> <<>>,
     rewards |-> <<>>, dones |-> <<>>]

DriverIdle ==
    /\ i = 0 /\ i_episode = 0 /\ episode_return = 0 /\ return_list = <<>>
    /\ transition_dict = EmptyDict /\ state = 0 /\ done = FALSE
    /\ env_t = 0 /\ env_left = 0 /\ episode_log = <<>>
    /\ log = <<>> /\ update_arg = EmptyDict

None == [exc |-> "none", value |-> <<>>]
Raise(e) == [exc |-> e, value |-> <<>>]
Return(v) == [exc |-> "none", value |-> v]

----------------------------------------------------------------------------
(* collections.deque(maxlen=capacity).append(x): append on the right, then *)
(* drop from the left while the deque is longer than maxlen.               *)

DequeAppendKeepOldest(buf, cap, x) ==
    IF Len(buf) >= cap THEN buf ELSE Append(buf, x)

DequeAppend(buf, cap, x) ==
    LET b == Append(buf, x)
    IN  IF Len(b) > cap THEN Tail(b) ELSE b

(* collections.deque(maxlen=capacity): a negative maxlen raises ValueError, *)
(* any other integer gives an empty deque.                                  *)
DequeNewRejectZero(capacity) ==
    IF capacity <= 0 THEN Raise("ValueError") ELSE Return(<<>>)

DequeNew(capacity) ==
    IF capacity < 0 THEN Raise("ValueError") ELSE Return(<<>>)

(* random.sample(population, k): ValueError unless 0 <= k <= len, else k  *)
(* positions of the population, no position twice, in draw order.  The     *)
(* empty set of draws stands for the ValueError.                           *)
Injective(f) == \A idx, j \in DOMAIN f : f[idx] = f[j] => idx = j

RandomSampleWithReplacement(n, k) ==
    IF k < 0 \/ k > n THEN {} ELSE [1..k -> 1..n]

RandomSampleClamped(n, k) ==
    IF k < 0 THEN {}
    ELSE LET m == IF k > n THEN n ELSE k
         IN  { f \in [1..m -> 1..n] : Injective(f) }

RandomSample(n, k) ==
    IF k < 0 \/ k > n THEN {}
    ELSE { f \in [1..k -> 1..n] : Injective(f) }

(* zip over the transitions, unpacked into five names: the j-th result has *)
(* the j-th field of every transition; with no transitions zip yields      *)
(* nothing and the unpacking raises ValueError.                            *)
Column(transitions, j) == [idx \in 1..Len(transitions) |-> transitions[idx][j]]

ZipUnpack(transitions) ==
    IF Len(transitions) = 0 THEN Raise("ValueError")
    ELSE Return(<<Column(transitions, 1), Column(transitions, 2),
                  Column(transitions, 3), Column(transitions, 4),
                  Column(transitions, 5)>>)

(* ReplayBuffer.sample for one draw p of random.sample. *)
SampleOf(buf, p) == ZipUnpack([idx \in 1..Len(p) |-> buf[p[idx]]])

size == Len(buffer)

----------------------------------------------------------------------------
(* The ReplayBuffer class driven by an arbitrary caller. *)

InitBuffer ==
    /\ pc = "new"
    /\ maxlen = 0
    /\ buffer = <<>>
    /\ added = <<>>
    /\ picked = <<>>
    /\ call = [op |-> "none", k |-> 0]
    /\ ret = None
    /\ args = <<>>
    /\ DriverIdle

ReplayBuffer(capacity) ==
    /\ pc = "new"
    /\ call' = [op |-> "new", k |-> capacity]
    /\ ret' = DequeNew(capacity)
    /\ IF ret'.exc = "none"
         THEN pc' = "ready" /\ maxlen' = capacity /\ buffer' = ret'.value
         ELSE pc' = "failed" /\ UNCHANGED <<maxlen, buffer>>
    /\ UNCHANGED <<added, picked, args, drvVars>>

add(t) ==
    /\ pc = "ready"
    /\ Len(added) < MaxAdds
    /\ buffer' = DequeAppend(buffer, maxlen, t)
    /\ added' = Append(added, t)
    /\ call' = [op |-> "add", k |-> 0]
    /\ ret' = None
    /\ picked' = <<>>
    /\ UNCHANGED <<pc, maxlen, args, drvVars>>

sample(batch_size) ==
    /\ pc = "ready"
    /\ call' = [op |-> "sample", k |-> batch_size]
    /\ IF RandomSample(size, batch_size) = {}
         THEN ret' = Raise("ValueError") /\ picked' = <<>>
         ELSE \E p \in RandomSample(size, batch_size) :
                 /\ picked' = p
                 /\ ret' = SampleOf(buffer, p)
    /\ UNCHANGED <<pc, maxlen, buffer, added, args, drvVars>>

NextBuffer ==
    \/ \E capacity \in -1..MaxCap : ReplayBuffer(capacity)
    \/ \E t \in Transitions : add(t)
    \/ \E batch_size \in 0..MaxBatch : sample(batch_size)

SpecBuffer == InitBuffer /\ [][NextBuffer]_vars

----------------------------------------------------------------------------
(* Claims about the ReplayBuffer class, under SpecBuffer. *)

LastOf(s, n) == SubSeq(s, Len(s) - n + 1, Len(s))

\* C1: on a buffer of capacity C >= 1, once more than C transitions have
\* been added, size() is C and the buffer is exactly the last C transitions
\* added, oldest first.
C1_FifoEviction ==
    (pc = "ready" /\ maxlen >= 1 /\ Len(added) > maxlen)
        => /\ size = maxlen
           /\ buffer = LastOf(added, maxlen)

C1_Witness ==
    /\ pc = "ready" /\ maxlen = 2 /\ Len(added) = 4
    /\ added[1] # added[3] /\ added[2] # added[4]
    /\ buffer = <<added[3], added[4]>>

\* C2: sample(k) with 1 <= k <= size() returns five collections of length
\* k; their i-th entries together are the transition in the slot drawn
\* i-th, which is a slot of the buffer, and no slot is drawn twice.
C2_SampleAligned ==
    (call.op = "sample" /\ 1 <= call.k /\ call.k <= size)
        => /\ ret.exc = "none"
           /\ Len(ret.value) = 5
           /\ \A j \in 1..5 : Len(ret.value[j]) = call.k
           /\ Len(picked) = call.k
           /\ Injective(picked)
           /\ \A idx \in 1..call.k :
                /\ picked[idx] \in 1..size
                /\ buffer[picked[idx]] = <<ret.value[1][idx], ret.value[2][idx],
                                          ret.value[3][idx], ret.value[4][idx],
                                          ret.value[5][idx]>>

C2_Witness ==
    /\ call.op = "sample" /\ call.k = 2 /\ size = 3
    /\ ret.exc = "none"
    /\ picked = <<3, 1>>
    /\ buffer[1] # buffer[3]

\* C3: sample(batch_size) with batch_size > size() raises ValueError and
\* returns no batch, and leaves the buffer as it was; only add changes the
\* buffer's contents.
C3_SampleTooLarge ==
    [][ /\ (call'.op = "sample" /\ call'.k > Len(buffer))
            => /\ ret'.exc = "ValueError"
               /\ ret'.value = <<>>
               /\ buffer' = buffer
               /\ maxlen' = maxlen
        /\ (buffer' # buffer) => call'.op = "add" ]_vars

C3_Witness ==
    /\ call.op = "sample" /\ call.k = 3 /\ size = 2
    /\ ret.exc = "ValueError"

\* C4 as stated: construction fails exactly for capacity <= 0.
C4_FailsForNonPositive ==
    call.op = "new" => (call.k <= 0 <=> ret.exc = "ValueError")

\* C4 as amended: construction fails with ValueError exactly for a capacity
\* below 0; every capacity >= 0, capacity 0 included, yields an empty buffer.
C4_FailsForNegative ==
    call.op = "new"
        => /\ call.k < 0 <=> (ret.exc = "ValueError" /\ pc = "failed")
           /\ call.k >= 0 => (pc = "ready" /\ maxlen = call.k /\ buffer = <<>>)

C4_Witness ==
    call.op = "new" /\ call.k = 0 /\ pc = "ready" /\ ret.exc = "none"

----------------------------------------------------------------------------
(* Sequence helpers shared by the pure functions. *)

SeqsUpTo(S, n) == UNION { [1..k -> S] : k \in 0..n }

Reverse(s) == [idx \in 1..Len(s) |-> s[Len(s) + 1 - idx]]

Min(x, y) == IF x < y THEN x ELSE y

----------------------------------------------------------------------------
(* compute_advantage(gamma, lmbda, td_delta).  Numbers are integers here,  *)
(* small enough that the float conversions on entry and exit keep them.    *)

RECURSIVE AdvantageLoop(_, _, _, _, _)
AdvantageLoop(gamma, lmbda, deltas, advantage, advantage_list) ==
    IF deltas = <<>> THEN advantage_list
    ELSE LET adv == gamma * lmbda * advantage + Head(deltas)
         IN  AdvantageLoop(gamma, lmbda, Tail(deltas), adv,
                           Append(advantage_list, adv))

compute_advantage_unreversed(gamma, lmbda, td_delta) ==
    AdvantageLoop(gamma, lmbda, Reverse(td_delta), 0, <<>>)

compute_advantage(gamma, lmbda, td_delta) ==
    Reverse(AdvantageLoop(gamma, lmbda, Reverse(td_delta), 0, <<>>))

Gammas == {0, 1, 2}
Lmbdas == {0, 1, 3}
Deltas == {-1, 0, 2}

InitAdvantage ==
    /\ pc = "call"
    /\ args \in [fn : {"compute_advantage"}, gamma : Gammas, lmbda : Lmbdas,
                 td_delta : SeqsUpTo(Deltas, MaxDeltas)]
    /\ ret = None
    /\ maxlen = 0 /\ buffer = <<>> /\ added = <<>> /\ picked = <<>>
    /\ call = [op |-> "none", k |-> 0]
    /\ DriverIdle

CallComputeAdvantage ==
    /\ pc = "call"
    /\ args.fn = "compute_advantage"
    /\ ret' = Return(compute_advantage(args.gamma, args.lmbda, args.td_delta))
    /\ pc' = "returned"
    /\ UNCHANGED <<bufVars, args, drvVars>>

NextAdvantage == CallComputeAdvantage

SpecAdvantage == InitAdvantage /\ [][NextAdvantage]_vars

\* C5: compute_advantage returns a sequence out of the length n of td_delta
\* with out[n-1] = td_delta[n-1] and out[i] = td_delta[i] +
\* gamma*lmbda*out[i+1] below that (indices from 0 as in the source); the
\* empty input gives the empty output and [d] gives [d].
C5_AdvantageRecurrence ==
    (pc = "returned" /\ args.fn = "compute_advantage")
        => LET td == args.td_delta
               n == Len(td)
               out == ret.value
           IN  /\ ret.exc = "none"
               /\ Len(out) = n
               /\ n >= 1 => out[n] = td[n]
               /\ \A idx \in 1..(n - 1) :
                     out[idx] = td[idx] + args.gamma * args.lmbda * out[idx + 1]
               /\ n = 0 => out = <<>>
               /\ n = 1 => out = <<td[1]>>

C5_Witness ==
    /\ pc = "returned" /\ args.fn = "compute_advantage"
    /\ args.gamma = 2 /\ args.lmbda = 3
    /\ args.td_delta = <<-1, 0, 2>>
    /\ ret.value = <<71, 12, 2>>

----------------------------------------------------------------------------
(* moving_average(a, window_size), with numpy's slicing and broadcasting.  *)
(* A quotient x / y is kept as the pair <<x, y>>.                          *)

RECURSIVE SumTo(_, _)
SumTo(s, idx) == IF idx = 0 THEN 0 ELSE SumTo(s, idx - 1) + s[idx]

\* np.cumsum(s)
CumSum(s) == [idx \in 1..Len(s) |-> SumTo(s, idx)]

\* np.insert(s, 0, 0)
Insert0(s) == <<0>> \o s

\* s[k:] for k >= 0
SliceFrom(s, k) == SubSeq(s, k + 1, Len(s))

\* s[:k] for k >= 0
SliceUntil(s, k) == SubSeq(s, 1, Min(k, Len(s)))

\* s[:-k] for k >= 0 (s[:-0] is s[:0], the empty slice)
SliceUntilNeg(s, k) == IF k = 0 THEN <<>> ELSE SubSeq(s, 1, Len(s) - k)

RevSliceOneMore(s, k) ==
    [idx \in 1..Min(k, Len(s)) |-> s[Len(s) + 1 - idx]]

\* s[:-k:-1] for k >= 1: from the last element back to, not including,
\* the k-th from the end
RevSliceUntilNeg(s, k) ==
    [idx \in 1..Min(k - 1, Len(s)) |-> s[Len(s) + 1 - idx]]

\* s[::2]
EveryOther(s) == [idx \in 1..((Len(s) + 1) \div 2) |-> s[2 * idx - 1]]

\* np.arange(start, stop, 2)
ARange2(start, stop) ==
    [idx \in 1..(IF stop > start THEN (stop - start + 1) \div 2 ELSE 0)
        |-> start + 2 * (idx - 1)]

\* numpy broadcasting of two 1-d operands: equal lengths, or one of length 1
Broadcastable(x, y) == Len(x) = Len(y) \/ Len(x) = 1 \/ Len(y) = 1

BroadcastLen(x, y) == IF Len(x) = 1 THEN Len(y) ELSE Len(x)

At(x, idx) == IF Len(x) = 1 THEN x[1] ELSE x[idx]

\* x - y
Minus(x, y) ==
    IF ~Broadcastable(x, y) THEN Raise("ValueError")
    ELSE Return([idx \in 1..BroadcastLen(x, y) |-> At(x, idx) - At(y, idx)])

\* x / y
Over(x, y) ==
    IF ~Broadcastable(x, y) THEN Raise("ValueError")
    ELSE Return([idx \in 1..BroadcastLen(x, y) |-> <<At(x, idx), At(y, idx)>>])

moving_average(a, window_size) ==
    LET cumulative_sum == CumSum(Insert0(a))
        diff == Minus(SliceFrom(cumulative_sum, window_size),
                      SliceUntilNeg(cumulative_sum, window_size))
        middle == IF diff.exc # "none" THEN diff
                  ELSE Over(diff.value, <<window_size>>)
        r == ARange2(1, window_size - 1)
        begin == Over(EveryOther(CumSum(SliceUntil(a, window_size - 1))), r)
        endrev == Over(EveryOther(CumSum(RevSliceUntilNeg(a, window_size))), r)
    IN  IF middle.exc # "none" THEN middle
        ELSE IF begin.exc # "none" THEN begin
        ELSE IF endrev.exc # "none" THEN endrev
        ELSE Return(begin.value \o middle.value \o Reverse(endrev.value))

Values == {1, 2}

InitMovingAverage ==
    /\ pc = "call"
    /\ args \in [fn : {"moving_average"}, a : SeqsUpTo(Values, MaxValues),
                 window_size : 1..MaxWindow]
    /\ ret = None
    /\ maxlen = 0 /\ buffer = <<>> /\ added = <<>> /\ picked = <<>>
    /\ call = [op |-> "none", k |-> 0]
    /\ DriverIdle

CallMovingAverage ==
    /\ pc = "call"
    /\ args.fn = "moving_average"
    /\ ret' = moving_average(args.a, args.window_size)
    /\ pc' = "returned"
    /\ UNCHANGED <<bufVars, args, drvVars>>

NextMovingAverage == CallMovingAverage

SpecMovingAverage == InitMovingAverage /\ [][NextMovingAverage]_vars

InWindowRange ==
    /\ pc = "returned" /\ args.fn = "moving_average"
    /\ 2 <= args.window_size /\ args.window_size <= Len(args.a)

\* C6: for every window_size with 2 <= window_size <= n, even or odd,
\* moving_average returns a sequence of exactly n elements.
C6_SameLength ==
    InWindowRange => (ret.exc = "none" /\ Len(ret.value) = Len(args.a))

\* C6 as amended: on that range moving_average returns exactly n elements
\* for every odd window_size; for an even one it does not: n - 1 elements
\* for window 2, n + 1 for window 4, a broadcasting ValueError from 6 on.
C6_OddSameLength ==
    InWindowRange =>
        LET w == args.window_size
            n == Len(args.a)
        IN  /\ w % 2 = 1 => (ret.exc = "none" /\ Len(ret.value) = n)
            /\ w = 2 => (ret.exc = "none" /\ Len(ret.value) = n - 1)
            /\ w = 4 => (ret.exc = "none" /\ Len(ret.value) = n + 1)
            /\ (w % 2 = 0 /\ w >= 6) => ret.exc = "ValueError"

C6_Witness ==
    /\ InWindowRange
    /\ args.window_size = 5 /\ args.a = <<1, 2, 2, 1, 2, 1>>
    /\ ret.exc = "none" /\ Len(ret.value) = 6
    /\ ret.value[1] = <<1, 1>> /\ ret.value[2] = <<5, 3>>
    /\ ret.value[3] = <<8, 5>> /\ ret.value[6] = <<1, 1>>

----------------------------------------------------------------------------
(* The external collaborators of the drivers.  The environment hands out   *)
(* observations numbered in the order it produces them, pays 2 for a       *)
(* non-terminal step and 1 for a terminal one, and decides freely when an  *)
(* episode ends, except that it reports at most MaxContinues non-terminal  *)
(* steps in a run.  The agent answers observation s with action           *)
(* TakeAction(s) and records the batch update is given.                    *)

Chunks == 10

EpisodeCounts == {5, 10, 15}

TakeAction(s) == 10 + (s % 2)

EnvReward(d) == IF d THEN 1 ELSE 2

EnvDones == IF env_left > 0 THEN {TRUE, FALSE} ELSE {TRUE}

\* int(num_episodes / 10)
EpisodesPerChunk(num_episodes) ==
    IF num_episodes >= 0 THEN num_episodes \div Chunks
    ELSE 0 - ((0 - num_episodes) \div Chunks)

\* the condition guarding sample and update in the off-policy driver
ShouldUpdateAtMinimal(sz, minimal_size) == sz >= minimal_size

ShouldUpdate(sz, minimal_size) == sz > minimal_size

\* the transition_dict an on-policy episode starts with
KeepTransitionDict(old) == old

NewTransitionDict(old) == EmptyDict

AppendTransition(d, s, a, ns, r, dn) ==
    [states |-> Append(d.states, s), actions |-> Append(d.actions, a),
     next_states |-> Append(d.next_states, ns),
     rewards |-> Append(d.rewards, r), dones |-> Append(d.dones, dn)]

\* the transition_dict the off-policy driver builds from a sampled batch
DictOfBatch(b) ==
    [states |-> b[1], actions |-> b[2], next_states |-> b[4],
     rewards |-> b[3], dones |-> b[5]]

InitLoop ==
    /\ pc = "for_episode"
    /\ i = 0 /\ i_episode = 0 /\ episode_return = 0 /\ return_list = <<>>
    /\ transition_dict = EmptyDict /\ state = 0 /\ done = FALSE
    /\ env_t = 0 /\ env_left = MaxContinues /\ episode_log = <<>>
    /\ log = <<>> /\ update_arg = EmptyDict
    /\ ret = None
    /\ added = <<>> /\ picked = <<>>
    /\ call = [op |-> "none", k |-> 0]

\* for i in range(10): the chunk is exhausted; go to the next one or return
NextChunk ==
    /\ pc = "for_episode"
    /\ i_episode >= EpisodesPerChunk(args.num_episodes)
    /\ IF i + 1 < Chunks
         THEN i' = i + 1 /\ i_episode' = 0 /\ UNCHANGED <<pc, ret>>
         ELSE pc' = "returned" /\ ret' = Return(return_list)
              /\ UNCHANGED <<i, i_episode>>
    /\ UNCHANGED <<bufVars, args, episode_return, return_list,
                   transition_dict, state, done, envVars, log, update_arg>>

\* for i_episode in range(int(num_episodes/10)): start an episode
StartEpisode ==
    /\ pc = "for_episode"
    /\ i_episode < EpisodesPerChunk(args.num_episodes)
    /\ episode_return' = 0
    /\ transition_dict' = NewTransitionDict(transition_dict)
    /\ state' = env_t + 1
    /\ env_t' = env_t + 1
    /\ done' = FALSE
    /\ episode_log' = <<>>
    /\ log' = <<>>
    /\ pc' = "while"
    /\ UNCHANGED <<bufVars, ret, args, i, i_episode, return_list, env_left,
                   update_arg>>

----------------------------------------------------------------------------
(* train_on_policy_agent(env, agent, num_episodes) *)

InitOnPolicy ==
    /\ InitLoop
    /\ args \in [fn : {"train_on_policy_agent"}, num_episodes : EpisodeCounts]
    /\ maxlen = 0 /\ buffer = <<>>

OnPolicyStep ==
    /\ args.fn = "train_on_policy_agent"
    /\ pc = "while" /\ ~done
    /\ \E d \in EnvDones :
         LET action == TakeAction(state)
             next_state == env_t + 1
             reward == EnvReward(d)
         IN  /\ env_t' = env_t + 1
             /\ env_left' = IF d THEN env_left ELSE env_left - 1
             /\ episode_log' =
                    Append(episode_log, <<state, action, reward, next_state, d>>)
             /\ transition_dict' =
                    AppendTransition(transition_dict, state, action,
                                     next_state, reward, d)
             /\ done' = d
             /\ state' = next_state
             /\ episode_return' = episode_return + reward
    /\ log' = Append(log, "step")
    /\ UNCHANGED <<pc, bufVars, ret, args, i, i_episode, return_list,
                   update_arg>>

OnPolicyEndEpisode ==
    /\ args.fn = "train_on_policy_agent"
    /\ pc = "while" /\ done
    /\ return_list' = Append(return_list, episode_return)
    /\ update_arg' = transition_dict
    /\ log' = Append(log, "update")
    /\ i_episode' = i_episode + 1
    /\ pc' = "for_episode"
    /\ UNCHANGED <<bufVars, ret, args, i, episode_return, transition_dict,
                   state, done, envVars>>

NextOnPolicy ==
    \/ NextChunk
    \/ StartEpisode
    \/ OnPolicyStep
    \/ OnPolicyEndEpisode

SpecOnPolicy == InitOnPolicy /\ [][NextOnPolicy]_vars

----------------------------------------------------------------------------
(* train_off_policy_agent(env, agent, num_episodes, replay_buffer,        *)
(*                        minimal_size, batch_size)                       *)

InitOffPolicy ==
    /\ InitLoop
    /\ args \in [fn : {"train_off_policy_agent"},
                 num_episodes : EpisodeCounts,
                 minimal_size : 0..MaxMinimal,
                 batch_size : 1..MaxBatch]
    /\ maxlen \in 0..MaxCap
    /\ buffer = DequeNew(maxlen).value

\* one pass of the while body up to the size test
OffPolicyStep ==
    /\ args.fn = "train_off_policy_agent"
    /\ pc = "while" /\ ~done
    /\ \E d \in EnvDones :
         LET action == TakeAction(state)
             next_state == env_t + 1
             reward == EnvReward(d)
             t == <<state, action, reward, next_state, d>>
         IN  /\ env_t' = env_t + 1
             /\ env_left' = IF d THEN env_left ELSE env_left - 1
             /\ episode_log' = Append(episode_log, t)
             /\ buffer' = DequeAppend(buffer, maxlen, t)
             /\ done' = d
             /\ state' = next_state
             /\ episode_return' = episode_return + reward
    /\ log' = <<"add">>
    /\ pc' = "if_size"
    /\ UNCHANGED <<maxlen, added, picked, call, ret, args, i, i_episode,
                   return_list, transition_dict, update_arg>>

\* if replay_buffer.size() > minimal_size: sample, build the dict, update
OffPolicyUpdate ==
    /\ args.fn = "train_off_policy_agent"
    /\ pc = "if_size"
    /\ IF ShouldUpdate(size, args.minimal_size)
         THEN /\ call' = [op |-> "sample", k |-> args.batch_size]
              /\ IF RandomSample(size, args.batch_size) = {}
                   THEN /\ ret' = Raise("ValueError")
                        /\ picked' = <<>>
                        /\ log' = Append(log, "sample")
                        /\ pc' = "raised"
                        /\ UNCHANGED <<transition_dict, update_arg>>
                   ELSE \E p \in RandomSample(size, args.batch_size) :
                          /\ picked' = p
                          /\ ret' = SampleOf(buffer, p)
                          /\ IF ret'.exc = "none"
                               THEN /\ transition_dict' = DictOfBatch(ret'.value)
                                    /\ update_arg' = transition_dict'
                                    /\ log' = log \o <<"sample", "update">>
                                    /\ pc' = "while"
                               ELSE /\ log' = Append(log, "sample")
                                    /\ pc' = "raised"
                                    /\ UNCHANGED <<transition_dict, update_arg>>
         ELSE /\ pc' = "while"
              /\ UNCHANGED <<call, ret, picked, log, transition_dict,
                             update_arg>>
    /\ UNCHANGED <<maxlen, buffer, added, args, i, i_episode, episode_return,
                   return_list, state, done, envVars>>

OffPolicyEndEpisode ==
    /\ args.fn = "train_off_policy_agent"
    /\ pc = "while" /\ done
    /\ return_list' = Append(return_list, episode_return)
    /\ i_episode' = i_episode + 1
    /\ pc' = "for_episode"
    /\ UNCHANGED <<bufVars, ret, args, i, episode_return, transition_dict,
                   state, done, envVars, log, update_arg>>

NextOffPolicy ==
    \/ NextChunk
    \/ StartEpisode
    \/ OffPolicyStep
    \/ OffPolicyUpdate
    \/ OffPolicyEndEpisode

SpecOffPolicy == InitOffPolicy /\ [][NextOffPolicy]_vars

(* Either driver. *)
SpecDrivers ==
    (InitOnPolicy \/ InitOffPolicy) /\ [][NextOnPolicy \/ NextOffPolicy]_vars

----------------------------------------------------------------------------
(* Claims about the training drivers. *)

\* C7: each driver runs exactly num_episodes episodes and returns a list of
\* exactly num_episodes returns.
C7_ReturnsNumEpisodes ==
    pc = "returned"
        => /\ ret.value = return_list
           /\ Len(return_list) = args.num_episodes

OffPolicy == args.fn = "train_off_policy_agent"

\* an environment step of the off-policy driver has run to its end
StepOver == OffPolicy /\ log # <<>> /\ pc # "if_size"

SampledBatch == DictOfBatch(SampleOf(buffer, picked).value)

\* C8 as stated: in every step the transition is added first, and sample
\* and update are each called once, update with the batch just sampled,
\* if and only if size() > minimal_size after the add; otherwise neither.
C8_UpdateIffAboveMinimal ==
    StepOver =>
        IF size > args.minimal_size
        THEN /\ log = <<"add", "sample", "update">>
             /\ update_arg = SampledBatch
        ELSE log = <<"add">>

\* C8 as amended: the transition is added first; with size() <=
\* minimal_size neither sample nor update is called; with size() >
\* minimal_size and 1 <= batch_size <= size() sample and update are each
\* called once, update with the batch just sampled; with size() >
\* minimal_size and batch_size > size() sample is called, raises ValueError
\* and ends the driver, and update is not called.
C8_UpdateIffSampled ==
    StepOver =>
        /\ Head(log) = "add"
        /\ size <= args.minimal_size
             => (log = <<"add">> /\ pc # "raised")
        /\ (size > args.minimal_size /\ 1 <= args.batch_size
                                      /\ args.batch_size <= size)
             => /\ log = <<"add", "sample", "update">>
                /\ pc # "raised"
                /\ picked \in RandomSample(size, args.batch_size)
                /\ update_arg = SampledBatch
        /\ (size > args.minimal_size /\ args.batch_size > size)
             => /\ log = <<"add", "sample">>
                /\ pc = "raised"
                /\ ret.exc = "ValueError"

C8_Witness ==
    /\ StepOver
    /\ args.minimal_size = 1 /\ args.batch_size = 2 /\ size = 3
    /\ log = <<"add", "sample", "update">>
    /\ picked = <<3, 1>>
    /\ update_arg.states = <<buffer[3][1], buffer[1][1]>>

Calls(l, name) == { k \in DOMAIN l : l[k] = name }

OnPolicy == args.fn = "train_on_policy_agent"

DictOfEpisode(ep) ==
    [states |-> Column(ep, 1), actions |-> Column(ep, 2),
     next_states |-> Column(ep, 4), rewards |-> Column(ep, 3),
     dones |-> Column(ep, 5)]

\* C9: the on-policy driver calls update once per episode, after the
\* environment reported done, with exactly that episode's transitions in
\* step order, the five lists of equal length.
C9_UpdateOncePerEpisode ==
    OnPolicy =>
        /\ pc = "while" => Calls(log, "update") = {}
        /\ (pc \in {"for_episode", "returned"} /\ log # <<>>)
             => /\ Calls(log, "update") = {Len(log)}
                /\ Calls(log, "step") = 1..(Len(log) - 1)
                /\ Len(episode_log) = Len(log) - 1
                /\ done
                /\ episode_log[Len(episode_log)][5]
                /\ \A k \in 1..(Len(episode_log) - 1) : ~episode_log[k][5]
                /\ update_arg = DictOfEpisode(episode_log)
                /\ Len(update_arg.states) = Len(episode_log)
                /\ Len(update_arg.actions) = Len(episode_log)
                /\ Len(update_arg.next_states) = Len(episode_log)
                /\ Len(update_arg.rewards) = Len(episode_log)
                /\ Len(update_arg.dones) = Len(episode_log)

C9_Witness ==
    /\ OnPolicy /\ pc = "for_episode"
    /\ Len(return_list) = 2
    /\ log = <<"step", "step", "update">>
    /\ update_arg.states = <<3, 4>>
    /\ update_arg.dones = <<FALSE, TRUE>>

====
